---- MODULE Spec2Model ----
(***************************************************************************)
(* The request-metrics middleware of the Observer service (src/main.py).   *)
(*                                                                         *)
(* monitor_requests is an async function run on a single-threaded event    *)
(* loop.  Its only suspension point is `await call_next(request)`, so the  *)
(* code before the await runs as one step, and the code that runs when the *)
(* await finishes (try body or except body, then finally) runs as one      *)
(* step.  Requests interleave only at the await.                           *)
(*                                                                         *)
(* The await finishes in one of three ways: call_next returns a response,  *)
(* call_next raises an Exception, or the task is cancelled and             *)
(* asyncio.CancelledError is thrown into the coroutine at the await.       *)
(* CancelledError derives from BaseException (Python 3.8 and later), so    *)
(* `except Exception` does not catch it; only `finally` runs.              *)
(***************************************************************************)
EXTENDS Integers, FiniteSets, Sequences, Bags, TLC

\* ------------------------------------------------------------------ bounds
\* Number of requests issued to the service (request ids are 1..NumReqs,
\* numbered in order of arrival at the middleware).
NumReqs == 2

\* time.time() readings range over 0..MaxClock.
MaxClock == 1

\* --------------------------------------------------------- program constants
\* `if response.status_code >= 400`
ErrorStatusFloor == 400

\* `status=500` recorded for a request whose handler raised
FailureStatus == 500

\* --------------------------------------------------------------- the inputs
Reqs == 1..NumReqs

Methods == {"GET", "POST"}

\* Paths registered with @app.get.  One of the seven is enough here (the others
\* are registered the same way): /simulate, whose handler answers 200 or, with
\* HTTPException(status_code=500), a 500 response.
Routes == {"/simulate"}

\* @app.get registers the route for GET only.
AllowedMethods == {"GET"}

\* Raw URL paths a client may send: registered ones and one that is not.
Paths == Routes \cup {"/missing"}

NoRoute == "<no route>"

\* The router's dispatch: every registered path is a static template, so a
\* request is dispatched to a route exactly when its path equals the template
\* and its method is one the route was registered for.
RouteOf(req) ==
    IF req.path \in Routes /\ req.method \in AllowedMethods
    THEN req.path
    ELSE NoRoute

\* Status codes call_next can return for a request: the handler's own statuses
\* for a dispatched request (an HTTPException raised by the handler is turned
\* into a response below the middleware, inside call_next), the router's 404
\* for a path with no route and its 405 for a method the route does not take.
Statuses == {200, 404, 405, 500}

DownstreamStatuses(req) ==
    IF RouteOf(req) # NoRoute THEN {200, 500}
    ELSE IF req.path \in Routes THEN {405}
    ELSE {404}

\* Exceptions (subclasses of Exception) call_next can raise.
Exceptions == {"RuntimeError", "ValueError"}

NoRequest == [method |-> "none", path |-> "none"]

\* Outcomes of `await call_next(request)` and of the middleware call itself.
Pending == [kind |-> "pending", id |-> 0, status |-> 0, exc |-> "none"]

ResponseObj(r, s) == [kind |-> "response", id |-> r, status |-> s, exc |-> "none"]

Raised(e) == [kind |-> "exception", id |-> 0, status |-> 0, exc |-> e]

CancelledError == [kind |-> "cancelled", id |-> 0, status |-> 0, exc |-> "CancelledError"]

\* ------------------------------------------------------------------- state
VARIABLES
    clock,               \* what time.time() returns now
    active_connections,  \* the module-level counter
    ACTIVE_CONNECTIONS,  \* the Gauge's published value
    REQUEST_COUNT,       \* Counter: (method, endpoint, status) -> count
    ERROR_RATE,          \* Counter: endpoint -> count
    REQUEST_LATENCY,     \* Histogram: the bag of observed values
    pc,                  \* per request: "new", "awaiting" (in call_next), "done"
    request,             \* per request: its method and raw URL path
    start_time,          \* per request: the local start_time
    calls,               \* per request: number of call_next invocations
    downstream,          \* per request: how call_next finished
    delivered,           \* per request: what the middleware's caller got
    version_file,        \* per directory: the text of its .version file
    pyproject,           \* the lines of pyproject.toml in the working directory
    cwd,                 \* the working directory the scripts are run from
    stdout,              \* what the last run of bump_version printed
    client_response,     \* the last response of GET /, /config or /error
    commits,             \* the commit subjects given to the release notes
    parsed,              \* per commit: what parse_conventional_commit returned
    categories           \* what categorize_commits returned

\* The middleware's state.
mwvars == <<clock, active_connections, ACTIVE_CONNECTIONS, REQUEST_COUNT,
            ERROR_RATE, REQUEST_LATENCY, pc, request, start_time, calls,
            downstream, delivered>>

\* The state of the version scripts and of the version-reporting endpoints.
appvars == <<version_file, pyproject, cwd, stdout, client_response>>

\* The state of the release-notes generator.
notevars == <<commits, parsed, categories>>

vars == <<mwvars, appvars, notevars>>

metrics == <<REQUEST_COUNT, ERROR_RATE, REQUEST_LATENCY>>

LabelKeys == Methods \X Paths \X Statuses

\* ------------------------------------------------- files, text and versions
\* Directories: the one that holds version.py and main.py, and another one a
\* script may be run from.
Dirs == {"pkg", "other"}

\* A text is a sequence of characters.  A file that does not exist.
NoFile == <<"<no file>">>

NoPyproject == <<[key |-> "<no file>", value |-> <<>>]>>

NoResponse == [path |-> "none", status |-> 0, version |-> <<>>, detail |-> "none"]

\* parse_conventional_commit / categorize_commits have not been called.
NotParsed == <<[type |-> "<not parsed>", scope |-> <<>>, message |-> <<>>]>>

NotCategorized ==
    [breaking |-> <<>>, feat |-> <<>>, fix |-> <<>>, docs |-> <<>>,
     chore |-> <<>>, other |-> <<<<"<not categorized>">>>>]

\* The release-notes generator has not run.
NotesIdle ==
    /\ commits = <<>>
    /\ parsed = NotParsed
    /\ categories = NotCategorized

\* The version scripts have not run and no endpoint has been called.
AppIdle ==
    /\ version_file = [d \in Dirs |-> NoFile]
    /\ pyproject = NoPyproject
    /\ cwd = "pkg"
    /\ stdout = <<>>
    /\ client_response = NoResponse

Init ==
    /\ clock \in 0..MaxClock
    /\ active_connections = 0
    /\ ACTIVE_CONNECTIONS = 0
    /\ REQUEST_COUNT = [k \in LabelKeys |-> 0]
    /\ ERROR_RATE = [p \in Paths |-> 0]
    /\ REQUEST_LATENCY = EmptyBag
    /\ pc = [r \in Reqs |-> "new"]
    /\ request = [r \in Reqs |-> NoRequest]
    /\ start_time = [r \in Reqs |-> 0]
    /\ calls = [r \in Reqs |-> 0]
    /\ downstream = [r \in Reqs |-> Pending]
    /\ delivered = [r \in Reqs |-> Pending]
    /\ AppIdle
    /\ NotesIdle

\* ----------------------------------------------------------------- helpers
\* Counter.labels(...).inc()
Inc_Twice(counter, key) == [counter EXCEPT ![key] = @ + 2]

Inc(counter, key) == [counter EXCEPT ![key] = @ + 1]

\* Histogram.observe(value)
Observe(hist, value) == hist (+) SetToBag({value})

\* labels(method=request.method, endpoint=request.url.path, status=...)
RequestLabels_Status200(req, status) == <<req.method, req.path, 200>>

RequestLabels(req, status) == <<req.method, req.path, status>>

\* labels(endpoint=request.url.path)
ErrorLabels(req) == req.path

\* response.status_code >= 400
IsErrorStatus_Only5xx(status) == status >= FailureStatus

IsErrorStatus(status) == status >= ErrorStatusFloor

\* time.time() - start_time
Elapsed(now, start) == now - start

\* active_connections += 1
EnterConnections_StaleRead(ac) == IF ac > 0 THEN ac ELSE ac + 1

EnterConnections(ac) == ac + 1

\* active_connections -= 1 (in `finally`)
ExitConnections_NoDecrement(ac) == ac

ExitConnections(ac) == ac - 1

\* `return response`
ReturnValue_Rebuilt(response) == [response EXCEPT !.id = 0]

ReturnValue(response) == response

\* bare `raise` in the except block
Reraise_Swallowed(failure) == ResponseObj(0, FailureStatus)

Reraise(failure) == failure

\* ----------------------------------------------------------------- actions
\* The system clock moves forward.
ClockAdvance ==
    /\ clock < MaxClock
    /\ clock' = clock + 1
    /\ UNCHANGED <<active_connections, ACTIVE_CONNECTIONS, metrics, pc, request,
                   start_time, calls, downstream, delivered>>
    /\ UNCHANGED <<appvars, notevars>>

\* The system clock is set back (time.time() is the wall clock, which an
\* administrator or NTP can step backwards).
ClockSetBack ==
    /\ \E t \in 0..MaxClock :
          /\ t < clock
          /\ clock' = t
    /\ UNCHANGED <<active_connections, ACTIVE_CONNECTIONS, metrics, pc, request,
                   start_time, calls, downstream, delivered>>
    /\ UNCHANGED <<appvars, notevars>>

\* A request arrives: the middleware runs up to `await call_next(request)`.
Enter(r, m, p) ==
    /\ pc[r] = "new"
    /\ \A q \in Reqs : q < r => pc[q] # "new"
    /\ request' = [request EXCEPT ![r] = [method |-> m, path |-> p]]
    /\ start_time' = [start_time EXCEPT ![r] = clock]
    /\ active_connections' = EnterConnections(active_connections)
    /\ ACTIVE_CONNECTIONS' = active_connections'
    /\ calls' = [calls EXCEPT ![r] = @ + 1]
    /\ pc' = [pc EXCEPT ![r] = "awaiting"]
    /\ UNCHANGED <<clock, metrics, downstream, delivered>>
    /\ UNCHANGED <<appvars, notevars>>

\* call_next returns a response with status s: the rest of the try body,
\* then finally.
Return(r, s) ==
    /\ pc[r] = "awaiting"
    /\ s \in DownstreamStatuses(request[r])
    /\ LET response == ResponseObj(r, s)
       IN  /\ downstream' = [downstream EXCEPT ![r] = response]
           /\ REQUEST_COUNT' =
                  Inc(REQUEST_COUNT, RequestLabels(request[r], response.status))
           /\ ERROR_RATE' =
                  IF IsErrorStatus(response.status)
                  THEN Inc(ERROR_RATE, ErrorLabels(request[r]))
                  ELSE ERROR_RATE
           /\ REQUEST_LATENCY' =
                  Observe(REQUEST_LATENCY, Elapsed(clock, start_time[r]))
           /\ delivered' = [delivered EXCEPT ![r] = ReturnValue(response)]
    /\ active_connections' = ExitConnections(active_connections)
    /\ ACTIVE_CONNECTIONS' = active_connections'
    /\ start_time' = [start_time EXCEPT ![r] = 0]
    /\ pc' = [pc EXCEPT ![r] = "done"]
    /\ UNCHANGED <<clock, request, calls>>
    /\ UNCHANGED <<appvars, notevars>>

\* call_next raises the Exception e (a failure of the route handler that is
\* not an HTTPException): the except body, then finally.
Raise(r, e) ==
    /\ pc[r] = "awaiting"
    /\ RouteOf(request[r]) # NoRoute
    /\ downstream' = [downstream EXCEPT ![r] = Raised(e)]
    /\ ERROR_RATE' = Inc(ERROR_RATE, ErrorLabels(request[r]))
    /\ REQUEST_COUNT' =
           Inc(REQUEST_COUNT, RequestLabels(request[r], FailureStatus))
    /\ REQUEST_LATENCY' =
           Observe(REQUEST_LATENCY, Elapsed(clock, start_time[r]))
    /\ delivered' = [delivered EXCEPT ![r] = Reraise(Raised(e))]
    /\ active_connections' = ExitConnections(active_connections)
    /\ ACTIVE_CONNECTIONS' = active_connections'
    /\ start_time' = [start_time EXCEPT ![r] = 0]
    /\ pc' = [pc EXCEPT ![r] = "done"]
    /\ UNCHANGED <<clock, request, calls>>
    /\ UNCHANGED <<appvars, notevars>>

\* The task is cancelled while suspended in call_next: CancelledError is not
\* an Exception, so the except block is skipped; finally runs and the
\* cancellation propagates.
Cancel(r) ==
    /\ pc[r] = "awaiting"
    /\ downstream' = [downstream EXCEPT ![r] = CancelledError]
    /\ delivered' = [delivered EXCEPT ![r] = CancelledError]
    /\ active_connections' = ExitConnections(active_connections)
    /\ ACTIVE_CONNECTIONS' = active_connections'
    /\ start_time' = [start_time EXCEPT ![r] = 0]
    /\ pc' = [pc EXCEPT ![r] = "done"]
    /\ UNCHANGED <<clock, metrics, request, calls>>
    /\ UNCHANGED <<appvars, notevars>>

Next ==
    \/ ClockAdvance
    \/ ClockSetBack
    \/ \E r \in Reqs, m \in Methods, p \in Paths : Enter(r, m, p)
    \/ \E r \in Reqs, s \in Statuses : Return(r, s)
    \/ \E r \in Reqs, e \in Exceptions : Raise(r, e)
    \/ \E r \in Reqs : Cancel(r)

Spec == Init /\ [][Next]_vars

\* ------------------------------------------------------ vocabulary of claims
\* Request r passes the entry increment in this step.
Entered(r) == pc[r] = "new" /\ pc'[r] = "awaiting"

\* Request r leaves the middleware in this step.
Exited(r) == pc[r] = "awaiting" /\ pc'[r] = "done"

\* Requests past the entry increment and not yet past the exit decrement.
InFlight == {r \in Reqs : pc[r] = "awaiting"}

\* Requests whose handler returned a response or raised an Exception.
Completed ==
    {r \in Reqs : pc[r] = "done" /\ downstream[r].kind \in {"response", "exception"}}

AllTerminated == \A r \in Reqs : pc[r] = "done"

RECURSIVE SumOver(_, _)
SumOver(f, S) ==
    IF S = {} THEN 0
    ELSE LET k == CHOOSE x \in S : TRUE
         IN  f[k] + SumOver(f, S \ {k})

\* The endpoint label a request's route gives: the route template when the
\* request is dispatched to a route, else the only name it has, its path.
EndpointOf(req) == IF RouteOf(req) # NoRoute THEN RouteOf(req) ELSE req.path

\* ------------------------------------------------------------------- claims
\* C1: every request adds exactly 1 to the in-flight gauge (and to
\* active_connections) when it enters and takes exactly 1 off when it leaves,
\* whether the handler returned, raised or was cancelled; so whenever no
\* request is in flight both are back at their value before the requests, 0.
C1_GaugePaired ==
    /\ [](InFlight = {} => ACTIVE_CONNECTIONS = 0 /\ active_connections = 0)
    /\ [][\A r \in Reqs :
            /\ Entered(r) =>
                  /\ active_connections' = active_connections + 1
                  /\ ACTIVE_CONNECTIONS' = ACTIVE_CONNECTIONS + 1
            /\ Exited(r) =>
                  /\ active_connections' = active_connections - 1
                  /\ ACTIVE_CONNECTIONS' = ACTIVE_CONNECTIONS - 1]_vars

\* All requests have terminated, one of them by cancellation and one by a
\* raised Exception.
C1_Witness ==
    /\ AllTerminated
    /\ \E r \in Reqs : downstream[r].kind = "cancelled"
    /\ \E r \in Reqs : downstream[r].kind = "exception"

\* C6: in every reachable state the published gauge equals the number of
\* requests in flight (so no entry or exit is lost), equals the module-level
\* counter, and is never negative.
C6_GaugeIsLiveCount ==
    /\ ACTIVE_CONNECTIONS = Cardinality(InFlight)
    /\ ACTIVE_CONNECTIONS = active_connections
    /\ ACTIVE_CONNECTIONS >= 0

\* Two requests are in flight at once.
C6_Witness == Cardinality(InFlight) >= 2 /\ ACTIVE_CONNECTIONS = 2

\* C7: the sum of RequestCounter over all label combinations equals the number
\* of requests that terminated by a response or by a raised Exception, in every
\* state; in particular it is N once N requests have all terminated that way.
C7_TotalCount ==
    /\ SumOver(REQUEST_COUNT, LabelKeys) = Cardinality(Completed)
    /\ (AllTerminated /\ Completed = Reqs) =>
           SumOver(REQUEST_COUNT, LabelKeys) = NumReqs

\* All requests have terminated, none cancelled, at least one by a raised
\* Exception and one by a response.
C7_Witness ==
    /\ AllTerminated
    /\ Completed = Reqs
    /\ \E r \in Reqs : downstream[r].kind = "exception"
    /\ \E r \in Reqs : downstream[r].kind = "response"

\* C10: the middleware calls call_next exactly once for a request that has
\* entered (never a second time), and the caller gets that call's outcome:
\* the very response object call_next returned.
C10_OneAttemptSameOutcome ==
    \A r \in Reqs :
        /\ calls[r] = (IF pc[r] = "new" THEN 0 ELSE 1)
        /\ pc[r] = "done" /\ downstream[r].kind = "response" =>
               delivered[r] = downstream[r]

\* A request has returned a response to its caller.
C10_Witness ==
    \E r \in Reqs :
        /\ pc[r] = "done"
        /\ downstream[r].kind = "response"
        /\ delivered[r].id = r
        /\ calls[r] = 1

\* C2: when the handler of a request with method M, dispatched to route R,
\* returns a response with status S, that step adds exactly 1 to
\* RequestCounter{M,R,S} and leaves every other label combination as it was.
C2_RequestCounterExact ==
    [][\A r \in Reqs :
          (/\ Exited(r)
           /\ downstream'[r].kind = "response"
           /\ RouteOf(request[r]) # NoRoute) =>
             REQUEST_COUNT' =
                 [REQUEST_COUNT EXCEPT
                      ![<<request[r].method, RouteOf(request[r]),
                          downstream'[r].status>>] = @ + 1]]_vars

\* A dispatched request returned a 500 response while another request, which
\* has since been counted under another label, was in flight.
C2_Witness ==
    \E r, q \in Reqs :
        /\ r # q
        /\ pc[r] = "done" /\ pc[q] = "done"
        /\ downstream[r].kind = "response" /\ downstream[r].status = 500
        /\ RouteOf(request[r]) # NoRoute
        /\ REQUEST_COUNT[<<request[r].method, RouteOf(request[r]), 500>>] = 1
        /\ downstream[q].kind = "response" /\ downstream[q].status # 500

\* C3: a response with status >= 400 adds exactly 1 (never 2) to
\* ErrorCounter at the request's endpoint label and changes no other label; a
\* response with status < 400 leaves ErrorCounter unchanged for every label.
C3_ErrorCounterOnStatus ==
    [][\A r \in Reqs :
          (Exited(r) /\ downstream'[r].kind = "response") =>
             IF downstream'[r].status >= 400
             THEN ERROR_RATE' =
                      [ERROR_RATE EXCEPT ![EndpointOf(request[r])] = @ + 1]
             ELSE ERROR_RATE' = ERROR_RATE]_vars

\* One request got a response with status in 400..499 and was counted as an
\* error once; another got a status below 400.
C3_Witness ==
    \E r, q \in Reqs :
        /\ pc[r] = "done" /\ pc[q] = "done"
        /\ downstream[r].kind = "response"
        /\ downstream[r].status >= 400 /\ downstream[r].status < 500
        /\ ERROR_RATE[request[r].path] = 1
        /\ downstream[q].kind = "response" /\ downstream[q].status < 400

\* C4: when the handler of a request raises an Exception, that step adds
\* exactly 1 to ErrorCounter{route}, exactly 1 to
\* RequestCounter{method,route,500}, records one latency observation, and the
\* caller gets the same Exception (not a response, not another failure).
C4_FailureObservedAndReraised ==
    [][\A r \in Reqs :
          (Exited(r) /\ downstream'[r].kind = "exception") =>
             /\ ERROR_RATE' =
                    [ERROR_RATE EXCEPT ![RouteOf(request[r])] = @ + 1]
             /\ REQUEST_COUNT' =
                    [REQUEST_COUNT EXCEPT
                         ![<<request[r].method, RouteOf(request[r]), 500>>] = @ + 1]
             /\ BagCardinality(REQUEST_LATENCY') =
                    BagCardinality(REQUEST_LATENCY) + 1
             /\ delivered'[r].kind = "exception"
             /\ delivered'[r] = downstream'[r]]_vars

\* A handler raised and its caller saw the Exception.
C4_Witness ==
    \E r \in Reqs :
        /\ pc[r] = "done"
        /\ downstream[r].kind = "exception"
        /\ delivered[r].kind = "exception"
        /\ ERROR_RATE[request[r].path] >= 1

\* C5: when a request is cancelled while suspended in call_next, that step
\* adds 1 to ErrorCounter{route} and to RequestCounter{method,route,500},
\* records one latency observation and decrements the in-flight gauge.
C5_CancelRunsFailurePath ==
    [][\A r \in Reqs :
          (Exited(r) /\ downstream'[r].kind = "cancelled") =>
             /\ ERROR_RATE' =
                    [ERROR_RATE EXCEPT ![EndpointOf(request[r])] = @ + 1]
             /\ REQUEST_COUNT' =
                    [REQUEST_COUNT EXCEPT
                         ![<<request[r].method, EndpointOf(request[r]), 500>>] = @ + 1]
             /\ BagCardinality(REQUEST_LATENCY') =
                    BagCardinality(REQUEST_LATENCY) + 1
             /\ ACTIVE_CONNECTIONS' = ACTIVE_CONNECTIONS - 1]_vars

\* C8: every endpoint label that appears in RequestCounter or ErrorCounter is
\* the route template of a registered route (so the label set is bounded by
\* the registered routes), and requests dispatched to the same route are
\* counted under the same label.
C8_LabelsAreRouteTemplates ==
    /\ \A k \in LabelKeys : REQUEST_COUNT[k] > 0 => k[2] \in Routes
    /\ \A p \in Paths : ERROR_RATE[p] > 0 => p \in Routes
    /\ \A r \in Completed :
           RouteOf(request[r]) # NoRoute =>
               \E m \in Methods, s \in Statuses :
                   REQUEST_COUNT[<<m, RouteOf(request[r]), s>>] > 0

\* C9: the histogram holds exactly one observation per request that completed
\* by a response or a raised Exception and none for any other request, and
\* every observed value is >= 0 whatever the clock did.
C9_OneNonNegativeObservation ==
    /\ BagCardinality(REQUEST_LATENCY) = Cardinality(Completed)
    /\ \A v \in BagToSet(REQUEST_LATENCY) : v >= 0

\* ======================================================================
\* The version file, the version scripts and the version-reporting endpoints
\* (src/version.py, src/bump_version.py, src/update_version.py, src/main.py).
\* ======================================================================

\* Version components stay within 0..MaxPart (a bump that would pass it is
\* not taken).
MaxPart == 2

\* The middleware is not running.
MwIdle ==
    /\ clock = 0
    /\ active_connections = 0
    /\ ACTIVE_CONNECTIONS = 0
    /\ REQUEST_COUNT = [k \in LabelKeys |-> 0]
    /\ ERROR_RATE = [p \in Paths |-> 0]
    /\ REQUEST_LATENCY = EmptyBag
    /\ pc = [r \in Reqs |-> "new"]
    /\ request = [r \in Reqs |-> NoRequest]
    /\ start_time = [r \in Reqs |-> 0]
    /\ calls = [r \in Reqs |-> 0]
    /\ downstream = [r \in Reqs |-> Pending]
    /\ delivered = [r \in Reqs |-> Pending]

\* ------------------------------------------------------------ text functions
Digits == <<"0", "1", "2", "3", "4", "5", "6", "7", "8", "9">>

Whitespace == {" ", "\n"}

\* str(n) for n >= 0, as the f-string f"{major}.{minor}.{patch}" formats it
RECURSIVE str(_)
str(n) ==
    IF n < 10 THEN <<Digits[n + 1]>>
    ELSE str(n \div 10) \o <<Digits[(n % 10) + 1]>>

IsDigit(c) == \E d \in 1..10 : Digits[d] = c

DigitValue(c) == (CHOOSE d \in 1..10 : Digits[d] = c) - 1

\* int(text) on a non-empty text of decimal digits
RECURSIVE int(_)
int(text) ==
    IF Len(text) = 1 THEN DigitValue(text[1])
    ELSE int(SubSeq(text, 1, Len(text) - 1)) * 10 + DigitValue(text[Len(text)])

IsNumber(text) == Len(text) > 0 /\ \A i \in 1..Len(text) : IsDigit(text[i])

\* text.strip()
RECURSIVE strip(_)
strip(text) ==
    IF text = <<>> THEN text
    ELSE IF text[1] \in Whitespace THEN strip(Tail(text))
    ELSE IF text[Len(text)] \in Whitespace
         THEN strip(SubSeq(text, 1, Len(text) - 1))
    ELSE text

\* text.split(".")
RECURSIVE split(_)
split(text) ==
    IF \A i \in 1..Len(text) : text[i] # "."
    THEN <<text>>
    ELSE LET i == CHOOSE j \in 1..Len(text) :
                      /\ text[j] = "."
                      /\ \A k \in 1..(j - 1) : text[k] # "."
         IN  <<SubSeq(text, 1, i - 1)>> \o split(SubSeq(text, i + 1, Len(text)))

\* f"{major}.{minor}.{patch}"
FormatVersion(major, minor, patch) ==
    str(major) \o <<".">> \o str(minor) \o <<".">> \o str(patch)

\* ---------------------------------------------------------------- version.py
\* The fallback of get_version: "0.0.0"
FallbackVersion == <<"0", ".", "0", ".", "0">>

\* get_version(): the stripped text of the .version file beside version.py,
\* or the fallback when there is none.
get_version_in(files) ==
    IF files["pkg"] # NoFile
    THEN strip(files["pkg"])
    ELSE FallbackVersion

get_version == get_version_in(version_file)

\* --------------------------------------------------------- update_version.py
\* A line `key = "value"` of pyproject.toml contains a match of the pattern
\* version = "([^"]*)" when its key ends in `version`.
MatchesVersionPattern(line) == line.key \in {"version", "python_version"}

\* update_pyproject_version(), run when the .version files are `files` and
\* pyproject.toml in the working directory holds the lines pp: the lines it
\* leaves there, and what it prints.
update_pyproject_version(files, pp) ==
    LET version == get_version_in(files)
    IN  IF pp = NoPyproject
        THEN [pyproject |-> pp, out |-> <<"pyproject.toml not found!">>]
        ELSE IF \E i \in DOMAIN pp : MatchesVersionPattern(pp[i])
        THEN [pyproject |->
                  [i \in DOMAIN pp |->
                      IF MatchesVersionPattern(pp[i])
                      THEN [pp[i] EXCEPT !.value = version]
                      ELSE pp[i]],
              out |-> <<"Updated pyproject.toml version to">>]
        ELSE [pyproject |-> pp,
              out |-> <<"Could not find version line in pyproject.toml">>]

\* ----------------------------------------------------------- bump_version.py
VersionTypes == {"major", "minor", "patch"}

\* What a run of bump_version that stops early leaves behind.
Stopped(message) ==
    [files |-> version_file, pyproject |-> pyproject, out |-> <<message>>,
     bumped |-> <<0, 0, 0>>]

\* bump_version(version_type), run in the working directory cwd: the .version
\* files and pyproject.toml it leaves, what it prints, and the components of
\* the version it wrote.
bump_version(version_type) ==
    IF version_file[cwd] = NoFile
    THEN Stopped(".version file not found!")
    ELSE
    LET current_version == strip(version_file[cwd])
        parts == split(current_version)
    IN  IF Len(parts) # 3
        THEN Stopped("Invalid version format")
        ELSE IF \E i \in 1..3 : ~IsNumber(parts[i])
        THEN Stopped("ValueError: invalid literal for int()")
        ELSE IF version_type \notin VersionTypes
        THEN Stopped("Invalid version type")
        ELSE
        LET major == IF version_type = "major" THEN int(parts[1]) + 1
                     ELSE int(parts[1])
            minor == IF version_type = "major" THEN 0
                     ELSE IF version_type = "minor" THEN int(parts[2]) + 1
                     ELSE int(parts[2])
            patch == IF version_type = "patch" THEN int(parts[3]) + 1 ELSE 0
            new_version == FormatVersion(major, minor, patch)
            files == [version_file EXCEPT ![cwd] = new_version \o <<"\n">>]
            updated == update_pyproject_version(files, pyproject)
        IN  [files |-> files,
             pyproject |-> updated.pyproject,
             out |-> updated.out \o
                     <<"Version bumped",
                       "Updated .version and pyproject.toml files">>,
             bumped |-> <<major, minor, patch>>]

\* ------------------------------------------------ main.py: version endpoints
\* FastAPI(title=..., version="1.0.0")
app_version == <<"1", ".", "0", ".", "0">>

\* GET /
root ==
    [path |-> "/", status |-> 200,
     version |-> <<"1", ".", "0", ".", "0">>, detail |-> "none"]

\* GET /config
get_config ==
    [path |-> "/config", status |-> 200,
     version |-> <<"1", ".", "0", ".", "0">>, detail |-> "none"]

\* GET /error: HTTPException(status_code=500, detail=...), which the framework
\* answers with status 500 and the JSON body {"detail": ...}
trigger_error ==
    [path |-> "/error", status |-> 500,
     version |-> <<>>, detail |-> "Intentional error for testing"]

\* ------------------------------------------------------------------ actions
\* Texts a .version file may hold before the scripts run: none, a well-formed
\* version, a two-part version, a version with a part that is no number.
InitialVersionTexts ==
    { NoFile,
      <<"1", ".", "0", ".", "0", "\n">>,
      <<"1", ".", "0", "\n">>,
      <<"1", ".", "x", ".", "0", "\n">> }

\* What pyproject.toml may hold before the scripts run: no file, no version
\* line, a version line, a version line and a python_version line.
InitialPyprojects ==
    { NoPyproject,
      <<[key |-> "name", value |-> <<"o", "b", "s">>]>>,
      <<[key |-> "name", value |-> <<"o", "b", "s">>],
        [key |-> "version", value |-> <<"1", ".", "0", ".", "0">>]>>,
      <<[key |-> "version", value |-> <<"1", ".", "0", ".", "0">>],
        [key |-> "python_version", value |-> <<"3", ".", "9">>]>> }

AppInit ==
    /\ MwIdle
    /\ NotesIdle
    /\ cwd \in Dirs
    /\ version_file \in [Dirs -> InitialVersionTexts]
    /\ cwd = "pkg" => version_file["other"] = NoFile
    /\ pyproject \in InitialPyprojects
    /\ stdout = <<>>
    /\ client_response = NoResponse

\* `python bump_version.py <version_type>` is run in cwd.
BumpVersion(version_type) ==
    LET result == bump_version(version_type)
    IN  /\ \A i \in 1..3 : result.bumped[i] <= MaxPart
        /\ version_file' = result.files
        /\ pyproject' = result.pyproject
        /\ stdout' = result.out
        /\ UNCHANGED <<cwd, client_response, mwvars, notevars>>

GetRoot ==
    /\ client_response' = root
    /\ UNCHANGED <<version_file, pyproject, cwd, stdout, mwvars, notevars>>

GetConfig ==
    /\ client_response' = get_config
    /\ UNCHANGED <<version_file, pyproject, cwd, stdout, mwvars, notevars>>

GetError ==
    /\ client_response' = trigger_error
    /\ UNCHANGED <<version_file, pyproject, cwd, stdout, mwvars, notevars>>

AppNext ==
    \/ \E t \in VersionTypes \cup {"bogus"} : BumpVersion(t)
    \/ GetRoot
    \/ GetConfig
    \/ GetError

SpecApp == AppInit /\ [][AppNext]_vars

\* ------------------------------------------------------------------- claims
\* C11: whatever the .version file beside version.py holds (nothing, or any
\* version, also after bump_version runs), the version in the body of GET /,
\* the version in the body of GET /config and app.version all equal
\* get_version().
C11_VersionsAgree ==
    /\ root.version = get_version
    /\ get_config.version = get_version
    /\ app_version = get_version
    /\ client_response.path \in {"/", "/config"} =>
           client_response.version = get_version

\* C12: GET /error is answered with status 500 and the detail
\* "Intentional error for testing purposes".
C12_ErrorDetail ==
    client_response.path = "/error" =>
        /\ client_response.status = 500
        /\ client_response.detail = "Intentional error for testing purposes"

\* C14: when the last run of bump_version printed "Updated .version and
\* pyproject.toml files", pyproject.toml in the working directory exists and
\* its version line holds the version that run wrote to .version.
C14_BothFilesUpdated ==
    (\E i \in DOMAIN stdout :
         stdout[i] = "Updated .version and pyproject.toml files") =>
        /\ pyproject # NoPyproject
        /\ \E i \in DOMAIN pyproject :
               /\ pyproject[i].key = "version"
               /\ pyproject[i].value = strip(version_file[cwd])

\* C13: counters and the histogram change only in the exit step of a request
\* that has entered and delegated to its handler once and is still counted in
\* the gauge (gauge >= 1); every request's exit step makes exactly one
\* RequestCounter increment and one latency observation, then takes the
\* request off the gauge and delivers the outcome; a request that has left
\* never acts again.
C13_OrderedExactlyOnce ==
    [][/\ metrics' # metrics =>
              \E r \in Reqs :
                  Exited(r) /\ calls[r] = 1 /\ ACTIVE_CONNECTIONS >= 1
       /\ \A r \in Reqs :
              Exited(r) =>
                  /\ ACTIVE_CONNECTIONS >= 1
                  /\ SumOver(REQUEST_COUNT', LabelKeys) =
                         SumOver(REQUEST_COUNT, LabelKeys) + 1
                  /\ BagCardinality(REQUEST_LATENCY') =
                         BagCardinality(REQUEST_LATENCY) + 1
                  /\ ACTIVE_CONNECTIONS' = ACTIVE_CONNECTIONS - 1
                  /\ delivered'[r] # Pending
       /\ \A r \in Reqs : pc[r] = "done" => pc'[r] = "done"]_vars

\* ======================================================================
\* The release-notes generator (src/generate_release_notes.py).
\*
\* A commit subject is a sequence of tokens: a word ("feat", "wip", "api",
\* "x", ...) or a single character of punctuation ("(", ")", "!", ":", " ").
\* "BREAKING CHANGE" is one token.
\* ======================================================================

\* Number of commit subjects given to categorize_commits at most.
MaxCommits == 2

\* The types the pattern of parse_conventional_commit names.
ConventionalTypes ==
    {"feat", "fix", "docs", "style", "refactor", "perf", "test", "chore",
     "ci", "build", "revert"}

\* The keys of the dict categorize_commits builds.
CategoryKeys == {"breaking", "feat", "fix", "docs", "chore", "other"}

Contains(text, token) == \E i \in 1..Len(text) : text[i] = token

StartsWith(text, prefix) ==
    /\ Len(prefix) <= Len(text)
    /\ SubSeq(text, 1, Len(prefix)) = prefix

\* ": " in commit
HasColonSpace(text) ==
    \E i \in 1..(Len(text) - 1) : text[i] = ":" /\ text[i + 1] = " "

\* commit.split(": ", 1)[1]
AfterColonSpace(text) ==
    LET i == CHOOSE j \in 1..(Len(text) - 1) :
                 /\ text[j] = ":" /\ text[j + 1] = " "
                 /\ \A k \in 1..(j - 1) : ~(text[k] = ":" /\ text[k + 1] = " ")
    IN  SubSeq(text, i + 2, Len(text))

\* scope.strip("()")
RECURSIVE StripParens(_)
StripParens(text) ==
    IF text = <<>> THEN text
    ELSE IF text[1] \in {"(", ")"} THEN StripParens(Tail(text))
    ELSE IF text[Len(text)] \in {"(", ")"}
         THEN StripParens(SubSeq(text, 1, Len(text) - 1))
    ELSE text

NoMatch == [matched |-> FALSE, type |-> "", scope |-> <<>>, message |-> <<>>]

\* re.match(r"^(feat|fix|...|revert)(\([^)]+\))?: (.+)$", commit):
\* group 1 is the type, group 2 the scope with its parentheses (there is one
\* only if "(" follows the type, it then runs to the first ")" and holds at
\* least one token between them), then ": " must follow, then group 3, the
\* non-empty rest.
Match(commit) ==
    LET n == Len(commit)
    IN  IF n = 0 \/ commit[1] \notin ConventionalTypes THEN NoMatch
        ELSE
        LET closing == {j \in 3..n : commit[j] = ")"}
            scoped == n >= 2 /\ commit[2] = "("
            close == IF closing = {} THEN 0
                     ELSE CHOOSE j \in closing : \A k \in closing : j <= k
            k == IF scoped THEN close + 1 ELSE 2
        IN  IF scoped /\ close < 4 THEN NoMatch
            ELSE IF n >= k + 2 /\ commit[k] = ":" /\ commit[k + 1] = " "
            THEN [matched |-> TRUE,
                  type |-> commit[1],
                  scope |-> IF scoped THEN SubSeq(commit, 2, close) ELSE <<>>,
                  message |-> SubSeq(commit, k + 2, n)]
            ELSE NoMatch

\* parse_conventional_commit(commit).  The dict it returns has a "scope" key
\* only for a plain conventional commit; here scope is <<>> otherwise.
parse_conventional_commit(commit) ==
    IF Contains(commit, "BREAKING CHANGE")
    THEN [type |-> "breaking", scope |-> <<>>,
          message |-> IF HasColonSpace(commit)
                      THEN AfterColonSpace(commit) ELSE commit]
    ELSE
    LET match == Match(commit)
    IN  IF match.matched
        THEN IF StartsWith(commit, <<match.type>> \o match.scope \o <<"!">>)
             THEN [type |-> "breaking", scope |-> <<>>,
                   message |-> match.message]
             ELSE [type |-> match.type, scope |-> StripParens(match.scope),
                   message |-> match.message]
        ELSE [type |-> "other", scope |-> <<>>, message |-> commit]

EmptyCategories ==
    [breaking |-> <<>>, feat |-> <<>>, fix |-> <<>>, docs |-> <<>>,
     chore |-> <<>>, other |-> <<>>]

\* The body of the loop of categorize_commits for one commit.
AddCommit(cats, commit) ==
    LET p == parse_conventional_commit(commit)
    IN  IF p.type = "breaking"
        THEN [cats EXCEPT !.breaking =
                  Append(@, <<"- **BREAKING**: ">> \o p.message)]
        ELSE IF p.type \in CategoryKeys
        THEN [cats EXCEPT ![p.type] = Append(@, <<"- ">> \o p.message)]
        ELSE [cats EXCEPT !.other = Append(@, <<"- ">> \o commit)]

RECURSIVE CategorizeFrom(_, _)
CategorizeFrom(cats, cs) ==
    IF cs = <<>> THEN cats
    ELSE CategorizeFrom(AddCommit(cats, Head(cs)), Tail(cs))

\* categorize_commits(commits)
categorize_commits(cs) == CategorizeFrom(EmptyCategories, cs)

\* ------------------------------------------------------------------ inputs
\* Commit subjects: a first word (two conventional types, one of them with no
\* category of its own, and a word that is no type), an optional scope, an
\* optional "!", a separator with or without its space, and a description
\* with or without the words BREAKING CHANGE.
CommitSubjects ==
    { <<head>> \o scope \o bang \o sep \o text :
        head \in {"feat", "perf", "wip"},
        scope \in {<<>>, <<"(", "api", ")">>},
        bang \in {<<>>, <<"!">>},
        sep \in {<<":", " ">>, <<":">>},
        text \in {<<"x">>, <<"x", " ", "BREAKING CHANGE">>} }

CommitLists ==
    UNION {[1..n -> CommitSubjects] : n \in 1..MaxCommits}

NotesInit ==
    /\ MwIdle
    /\ AppIdle
    /\ commits \in CommitLists
    /\ parsed = NotParsed
    /\ categories = NotCategorized

\* parse_conventional_commit is called on each commit.
ParseCommits ==
    /\ parsed' = [i \in DOMAIN commits |-> parse_conventional_commit(commits[i])]
    /\ UNCHANGED <<commits, categories, mwvars, appvars>>

\* main(): categories = categorize_commits(commits)
CategorizeCommits ==
    /\ categories' = categorize_commits(commits)
    /\ UNCHANGED <<commits, parsed, mwvars, appvars>>

NotesNext ==
    \/ ParseCommits
    \/ CategorizeCommits

SpecNotes == NotesInit /\ [][NotesNext]_vars

\* ------------------------------------------------------------------- claims
\* The commit carries "!" directly after a conventional type and an optional
\* scope, followed by ": " and a description.
HasBreakingIndicator(commit) ==
    \E type \in ConventionalTypes, scope \in {<<>>, <<"(", "api", ")">>} :
        /\ StartsWith(commit, <<type>> \o scope \o <<"!", ":", " ">>)
        /\ Len(commit) > Len(scope) + 4

\* C15: every commit with the "!" indicator is parsed as type "breaking", and
\* categorize_commits lists it under "breaking" and not under "other".
C15_BangIsBreaking ==
    \A i \in DOMAIN commits :
        HasBreakingIndicator(commits[i]) =>
            /\ parsed # NotParsed => parsed[i].type = "breaking"
            /\ categories # NotCategorized =>
                   /\ \E k \in DOMAIN categories.breaking :
                          categories.breaking[k] =
                              <<"- **BREAKING**: ">> \o AfterColonSpace(commits[i])
                   /\ \A k \in DOMAIN categories.other :
                          categories.other[k] # <<"- ">> \o commits[i]

====
